---- MODULE Spec2Model ----
(***************************************************************************)
(* Model of the renderless front end: the zustand project store            *)
(* (useProjectStore: versions, current pointer, flaws, current mask) and   *)
(* the click-to-mask region growing of SegmentationCanvas / ImageCanvas,   *)
(* and the brush painting of ImageCanvas / BrushMaskCanvas.                *)
(***************************************************************************)
EXTENDS Integers, Sequences, FiniteSets, TLC

(***************************************************************************)
(* Bounds of the model.                                                    *)
(***************************************************************************)
\* number of ids uuidv4() may hand out in one behaviour
MaxIds == 6
\* number of `new Date()` readings in one behaviour
MaxClock == 4
\* largest image width and height, in pixels
MaxW == 2
MaxH == 2
\* number of brush stamps drawn on a mask canvas since it was last blanked
MaxStamps == 3
\* most generateImage calls awaiting their response at once
MaxInFlight == 2
\* renders /api/edit returns to the editor page in one behaviour
MaxRenders == 4

(***************************************************************************)
(* Values.                                                                 *)
(***************************************************************************)
\* JavaScript null for ids and the selected flaw
Null == 0
\* an id string that uuidv4() never returned (a caller can still pass it)
BogusId == 0 - 1
\* `project: null`
NullProject == [isNull |-> TRUE]
\* `find(...) || null`
NullVersion == [isNull |-> TRUE]
\* `currentMask: null`, `mask: null`
NullMask == [isNull |-> TRUE]

\* data URLs of uploaded photos, and image URLs the generation service returns
ImageUrls == {"imgA"}
ResultUrls == {"imgB"}
Names == {"photo"}
Prompts == {"edit"}
PromptTexts == {"", "edit"}
\* Mask objects a caller may hand to setCurrentMask (null included)
MaskInputs == {NullMask, [id |-> BogusId]}
\* the id of a Mask object, null for null
MaskId(mask) == IF mask = NullMask THEN Null ELSE mask.id
Points == {<<0, 0>>}
\* no handleChatGenerate call is running
NoChatGenerate == [pending |-> FALSE]
\* a null error message
NoError == ""
\* `detail` of a failed response of /api/generate: absent, or a text
FailureDetails == {"", "quota"}
Descriptions == {"crack"}

VARIABLES
  project,         \* ProjectState.project
  currentMask,     \* ProjectState.currentMask
  selectedFlawId,  \* ProjectState.selectedFlawId
  promptText,      \* ProjectState.promptText
  nextId,          \* the ids uuidv4() has handed out are 1..nextId-1
  now,             \* the reading of the wall clock (new Date())
  lastCall         \* the last store action called: name, id argument, outcome

storeVars == <<project, currentMask, selectedFlawId, promptText, nextId, now, lastCall>>

VARIABLES
  imageData,       \* the ImageData read back from the image canvas (null until loaded)
  seg,             \* the locals of the running segmentAtPoint call
  maskGenerated    \* what SegmentationCanvas passed to onMaskGenerated

segVars == <<imageData, seg, maskGenerated>>

VARIABLES
  maskCanvas,      \* the mask canvas of the mounted painting component
  isDrawing,       \* useState(false): a stroke is open
  stampCount,      \* drawBrush calls since the mask canvas was last blanked
  lastBrush        \* the handler of the painting component that ran last

brushVars == <<maskCanvas, isDrawing, stampCount, lastBrush>>

VARIABLES
  isGenerating,    \* ProjectState.isGenerating
  toolbarError,    \* Toolbar: useState<string | null>(null), "" for null
  requests,        \* the generateImage calls awaiting their response, oldest first
  wizard,          \* WizardFlow: step, selectedIntent, customPrompt, isGenerating, error
  lastResolved     \* the last generateImage call that returned: the version it
                   \* had read, and currentVersionId when it returned

genVars == <<isGenerating, toolbarError, requests, wizard, lastResolved>>

VARIABLES
  versions,             \* ProjectEditorPage: useState<Version[]>([])
  currentVersionIndex,  \* ProjectEditorPage: useState<number>(-1)
  isLoading,            \* ProjectEditorPage: useState(false)
  chatGenerate,         \* the handleChatGenerate call awaiting /api/edit, with
                        \* the versions and currentVersionIndex of its render
  renderCount           \* renders /api/edit has returned to this page

pageVars == <<versions, currentVersionIndex, isLoading, chatGenerate, renderCount>>

VARIABLES
  effectUrl,       \* ImageCanvas: currentVersion?.imageUrl at the last run of the
                   \* image effect ("" before the first)
  loading          \* ImageCanvas: the urls of the Images whose onload is to come

canvasVars == <<effectUrl, loading>>

vars == <<storeVars, segVars, brushVars, genVars, pageVars, canvasVars>>


\* a store action that returned normally (none of them throws)
Call(op, arg) == [op |-> op, arg |-> arg, error |-> "none"]

(***************************************************************************)
(* Helpers of the store.                                                   *)
(***************************************************************************)
Min(S) == CHOOSE m \in S : \A n \in S : m <= n

\* Array.prototype.find on versions by id, `|| null`
getVersionByIdIn(p, id) ==
  IF p = NullProject THEN NullVersion
  ELSE LET S == {i \in 1..Len(p.versions) : p.versions[i].id = id}
       IN IF S = {} THEN NullVersion ELSE p.versions[Min(S)]

getVersionById(id) == getVersionByIdIn(project, id)

getCurrentVersionIn(p) ==
  IF p = NullProject THEN NullVersion
  ELSE getVersionByIdIn(p, p.currentVersionId)

getCurrentVersion == getCurrentVersionIn(project)

\* HistoryWalk with history.push in place of history.unshift
RECURSIVE HistoryWalkPush(_, _, _)
HistoryWalkPush(p, version, history) ==
  IF version = NullVersion THEN history
  ELSE HistoryWalkPush(p,
                       IF version.parentId # Null
                         THEN getVersionByIdIn(p, version.parentId)
                         ELSE NullVersion,
                       history \o <<version>>)

\* the while loop of getVersionHistory: unshift, then step to the parent
RECURSIVE HistoryWalk(_, _, _)
HistoryWalk(p, version, history) ==
  IF version = NullVersion THEN history
  ELSE HistoryWalk(p,
                   IF version.parentId # Null
                     THEN getVersionByIdIn(p, version.parentId)
                     ELSE NullVersion,
                   <<version>> \o history)

getVersionHistoryIn(p) ==
  IF p = NullProject THEN <<>>
  ELSE IF getCurrentVersionIn(p) = NullVersion THEN <<>>
  ELSE HistoryWalk(p, getCurrentVersionIn(p), <<>>)

getVersionHistory == getVersionHistoryIn(project)

\* the history shown after setCurrentVersion(id)
HistoryFrom(p, id) ==
  IF p = NullProject THEN <<>>
  ELSE getVersionHistoryIn([p EXCEPT !.currentVersionId = id])

\* the flaw ids FlawMarkers renders buttons for: the flaws of the current version
FlawIds(p) ==
  IF getCurrentVersionIn(p) = NullVersion THEN {}
  ELSE {getCurrentVersionIn(p).flaws[j].id : j \in 1..Len(getCurrentVersionIn(p).flaws)}

VersionIds(p) ==
  IF p = NullProject THEN {}
  ELSE {p.versions[i].id : i \in 1..Len(p.versions)}

\* the version ids a caller can pass: those of the project's versions, and one
\* that is the id of none of them (a stale or made-up id)
IdInputs == VersionIds(project) \cup {BogusId}

(***************************************************************************)
(* Actions of the store.                                                   *)
(***************************************************************************)
createProject(name, initialImageUrl) ==
  /\ nextId + 1 <= MaxIds
  /\ now < MaxClock
  /\ LET projectId == nextId
         versionId == nextId + 1
         initialVersion == [id |-> versionId, imageUrl |-> initialImageUrl,
                            parentId |-> Null, prompt |-> "Original upload",
                            mask |-> NullMask, flaws |-> <<>>, createdAt |-> now]
     IN project' = [id |-> projectId, name |-> name,
                    versions |-> <<initialVersion>>,
                    currentVersionId |-> versionId,
                    createdAt |-> now, updatedAt |-> now]
  /\ nextId' = nextId + 2
  /\ now' = now + 1
  /\ lastCall' = Call("createProject", Null)
  /\ UNCHANGED <<currentMask, selectedFlawId, promptText>>
  /\ UNCHANGED <<segVars, brushVars, genVars, pageVars, canvasVars>>

\* setCurrentVersion without the `currentMask: null` line
setCurrentVersionKeepsMask(versionId) ==
  /\ IF project = NullProject
       THEN UNCHANGED <<project, currentMask, selectedFlawId, now>>
       ELSE /\ now < MaxClock
            /\ project' = [project EXCEPT !.currentVersionId = versionId,
                                          !.updatedAt = now]
            /\ currentMask' = currentMask
            /\ selectedFlawId' = Null
            /\ now' = now + 1
  /\ lastCall' = Call("setCurrentVersion", versionId)
  /\ UNCHANGED <<promptText, nextId>>
  /\ UNCHANGED <<segVars, brushVars, genVars, pageVars, canvasVars>>

setCurrentVersion(versionId) ==
  /\ IF project = NullProject
       THEN UNCHANGED <<project, currentMask, selectedFlawId, now>>
       ELSE /\ now < MaxClock
            /\ project' = [project EXCEPT !.currentVersionId = versionId,
                                          !.updatedAt = now]
            /\ currentMask' = NullMask
            /\ selectedFlawId' = Null
            /\ now' = now + 1
  /\ lastCall' = Call("setCurrentVersion", versionId)
  /\ UNCHANGED <<promptText, nextId>>
  /\ UNCHANGED <<segVars, brushVars, genVars, pageVars, canvasVars>>

\* the state update of addVersion
addVersionState(imageUrl, prompt, mask, parentId) ==
  /\ nextId <= MaxIds
  /\ now < MaxClock
  /\ LET versionId == nextId
         newVersion == [id |-> versionId, imageUrl |-> imageUrl,
                        parentId |-> parentId, prompt |-> prompt,
                        mask |-> mask, flaws |-> <<>>, createdAt |-> now]
     IN IF project = NullProject
          THEN UNCHANGED <<project, currentMask, promptText>>
          ELSE /\ project' = [project EXCEPT
                                !.versions = Append(project.versions, newVersion),
                                !.currentVersionId = versionId,
                                !.updatedAt = now]
               /\ currentMask' = NullMask
               /\ promptText' = ""
  /\ nextId' = nextId + 1
  /\ now' = now + 1
  /\ lastCall' = Call("addVersion", parentId)
  /\ UNCHANGED selectedFlawId

\* addVersion without the `currentVersionId: versionId` line
addVersionKeepsCurrent(imageUrl, prompt, mask, parentId) ==
  /\ nextId <= MaxIds
  /\ now < MaxClock
  /\ LET versionId == nextId
         newVersion == [id |-> versionId, imageUrl |-> imageUrl,
                        parentId |-> parentId, prompt |-> prompt,
                        mask |-> mask, flaws |-> <<>>, createdAt |-> now]
     IN IF project = NullProject
          THEN UNCHANGED <<project, currentMask, promptText>>
          ELSE /\ project' = [project EXCEPT
                                !.versions = Append(project.versions, newVersion),
                                !.updatedAt = now]
               /\ currentMask' = NullMask
               /\ promptText' = ""
  /\ nextId' = nextId + 1
  /\ now' = now + 1
  /\ lastCall' = Call("addVersion", parentId)
  /\ UNCHANGED selectedFlawId
  /\ UNCHANGED <<segVars, brushVars, genVars, pageVars, canvasVars>>

addVersion(imageUrl, prompt, mask, parentId) ==
  /\ addVersionState(imageUrl, prompt, mask, parentId)
  /\ UNCHANGED <<segVars, brushVars, genVars, pageVars, canvasVars>>

setPromptText(text) ==
  /\ promptText' = text
  /\ lastCall' = Call("setPromptText", Null)
  /\ UNCHANGED <<project, currentMask, selectedFlawId, nextId, now>>
  /\ UNCHANGED <<segVars, brushVars, genVars, pageVars, canvasVars>>

setCurrentMask(mask) ==
  /\ currentMask' = mask
  /\ lastCall' = Call("setCurrentMask", MaskId(mask))
  /\ UNCHANGED <<project, selectedFlawId, promptText, nextId, now>>
  /\ UNCHANGED <<segVars, brushVars, genVars, pageVars, canvasVars>>

addFlaw(point, description) ==
  /\ IF project = NullProject
       THEN UNCHANGED <<project, selectedFlawId, nextId, now>>
       ELSE /\ nextId <= MaxIds
            /\ now < MaxClock
            /\ LET newFlaw == [id |-> nextId, point |-> point,
                               description |-> description,
                               resolved |-> FALSE, createdAt |-> now]
                   updatedVersions ==
                     [i \in 1..Len(project.versions) |->
                        IF project.versions[i].id = project.currentVersionId
                          THEN [project.versions[i] EXCEPT
                                  !.flaws = Append(@, newFlaw)]
                          ELSE project.versions[i]]
               IN /\ project' = [project EXCEPT !.versions = updatedVersions,
                                                !.updatedAt = now]
                  /\ selectedFlawId' = newFlaw.id
            /\ nextId' = nextId + 1
            /\ now' = now + 1
  /\ lastCall' = Call("addFlaw", Null)
  /\ UNCHANGED <<currentMask, promptText>>
  /\ UNCHANGED <<segVars, brushVars, genVars, pageVars, canvasVars>>

\* resolveFlaw dropping the flaw (`filter`) instead of marking it
resolveFlawRemoves(flawId) ==
  /\ IF project = NullProject
       THEN UNCHANGED <<project, now>>
       ELSE /\ now < MaxClock
            /\ LET resolveIn(flaws) ==
                     SelectSeq(flaws, LAMBDA f : f.id # flawId)
                   updatedVersions ==
                     [i \in 1..Len(project.versions) |->
                        IF project.versions[i].id = project.currentVersionId
                          THEN [project.versions[i] EXCEPT
                                  !.flaws = resolveIn(project.versions[i].flaws)]
                          ELSE project.versions[i]]
               IN project' = [project EXCEPT !.versions = updatedVersions,
                                             !.updatedAt = now]
            /\ now' = now + 1
  /\ lastCall' = Call("resolveFlaw", flawId)
  /\ UNCHANGED <<currentMask, selectedFlawId, promptText, nextId>>
  /\ UNCHANGED <<segVars, brushVars, genVars, pageVars, canvasVars>>

resolveFlaw(flawId) ==
  /\ IF project = NullProject
       THEN UNCHANGED <<project, now>>
       ELSE /\ now < MaxClock
            /\ LET resolveIn(flaws) ==
                     [j \in 1..Len(flaws) |->
                        IF flaws[j].id = flawId
                          THEN [flaws[j] EXCEPT !.resolved = TRUE]
                          ELSE flaws[j]]
                   updatedVersions ==
                     [i \in 1..Len(project.versions) |->
                        IF project.versions[i].id = project.currentVersionId
                          THEN [project.versions[i] EXCEPT
                                  !.flaws = resolveIn(project.versions[i].flaws)]
                          ELSE project.versions[i]]
               IN project' = [project EXCEPT !.versions = updatedVersions,
                                             !.updatedAt = now]
            /\ now' = now + 1
  /\ lastCall' = Call("resolveFlaw", flawId)
  /\ UNCHANGED <<currentMask, selectedFlawId, promptText, nextId>>
  /\ UNCHANGED <<segVars, brushVars, genVars, pageVars, canvasVars>>

selectFlaw(flawId) ==
  /\ selectedFlawId' = flawId
  /\ lastCall' = Call("selectFlaw", flawId)
  /\ UNCHANGED <<project, currentMask, promptText, nextId, now>>
  /\ UNCHANGED <<segVars, brushVars, genVars, pageVars, canvasVars>>

(***************************************************************************)
(* Region-growing segmentation: segmentAtPoint of SegmentationCanvas and   *)
(* of ImageCanvas (same loop, tolerance 32 and 40).                        *)
(***************************************************************************)
\* `const tolerance = 32` (SegmentationCanvas) and `= 40` (ImageCanvas)
ToleranceSegmentationCanvas == 32
ToleranceImageCanvas == 40
\* `const padding = 10`
Padding == 10

Sites == {"SegmentationCanvas", "ImageCanvas"}
ToleranceOf(site) ==
  IF site = "SegmentationCanvas" THEN ToleranceSegmentationCanvas
  ELSE ToleranceImageCanvas

\* RGBA samples the source images are made of: their summed R, G, B difference
\* is 120, which tolerance 40 accepts (120 <= 40 * 3) and tolerance 32 rejects
Colours == {<<0, 0, 0, 255>>, <<40, 40, 40, 255>>}
\* a zero-filled Uint8ClampedArray cell, and the cell the loop writes
Unselected == <<0, 0, 0, 0>>
White == <<255, 255, 255, 255>>
\* reading a typed array beyond its length
Undefined == <<>>
\* `imageData` state before the image has loaded
NullImage == [isNull |-> TRUE]
\* onMaskGenerated has not been called
NoMaskGenerated == [called |-> FALSE]

\* ImageData objects: data[key] is the RGBA sample at byte offset key * 4
Images ==
  UNION {[width : {w}, height : {h}, data : [0..(w * h - 1) -> Colours]] :
           <<w, h>> \in (1..MaxW) \X (1..MaxH)}

\* click coordinates after Math.floor, one pixel beyond the canvas included
SeedsOf(img) ==
  IF img = NullImage THEN {}
  ELSE ((0 - 1)..img.width) \X ((0 - 1)..img.height)

Abs(n) == IF n < 0 THEN 0 - n ELSE n
MinOf(a, b) == IF a < b THEN a ELSE b
MaxOf(a, b) == IF a > b THEN a ELSE b

\* imageData.data[key * 4 ..]: undefined beyond the array
PixelAt(img, key) ==
  IF key \in DOMAIN img.data THEN img.data[key] ELSE Undefined

\* DiffExceeds with `diff > tolerance` (the factor 3 forgotten)
DiffExceedsNoFactor(c, target, tolerance) ==
  IF c = Undefined \/ target = Undefined THEN FALSE
  ELSE Abs(c[1] - target[1]) + Abs(c[2] - target[2]) + Abs(c[3] - target[3])
         > tolerance

\* `diff > tolerance * 3`; with an undefined operand diff is NaN and the test is false
DiffExceeds(c, target, tolerance) ==
  IF c = Undefined \/ target = Undefined THEN FALSE
  ELSE Abs(c[1] - target[1]) + Abs(c[2] - target[2]) + Abs(c[3] - target[3])
         > tolerance * 3

\* the four stack.push arguments, in order
Neighbours(px, py) == <<<<px + 1, py>>, <<px - 1, py>>, <<px, py + 1>>, <<px, py - 1>>>>

SegIdle == [pc |-> "idle"]

\* img.onload: the canvas takes the image's size and its pixels are read back
ImageLoad(img) ==
  /\ imageData = NullImage
  /\ seg.pc = "idle"
  /\ imageData' = img
  /\ UNCHANGED <<seg, maskGenerated>>
  /\ UNCHANGED <<storeVars, brushVars, genVars, pageVars, canvasVars>>

\* SegStart reading the seed pixel at x * width + y (coordinates transposed)
SegStartTransposed(img, site, x, y) ==
  [pc |-> "loop", site |-> site, x |-> x, y |-> y,
   width |-> img.width, height |-> img.height,
   target |-> PixelAt(img, x * img.width + y),
   tolerance |-> ToleranceOf(site),
   visited |-> {},
   maskData |-> [k \in 0..(img.width * img.height - 1) |-> Unselected],
   stack |-> <<<<x, y>>>>,
   minX |-> img.width, minY |-> img.height, maxX |-> 0, maxY |-> 0,
   compared |-> {}, recompared |-> {}]

\* the locals segmentAtPoint sets up before the while loop
SegStart(img, site, x, y) ==
  [pc |-> "loop", site |-> site, x |-> x, y |-> y,
   width |-> img.width, height |-> img.height,
   target |-> PixelAt(img, y * img.width + x),
   tolerance |-> ToleranceOf(site),
   visited |-> {},
   maskData |-> [k \in 0..(img.width * img.height - 1) |-> Unselected],
   stack |-> <<<<x, y>>>>,
   minX |-> img.width, minY |-> img.height, maxX |-> 0, maxY |-> 0,
   compared |-> {}, recompared |-> {}]

\* the click
segmentAtPoint(site, x, y) ==
  /\ seg.pc = "idle"
  /\ imageData # NullImage
  \* ImageCanvas renders its canvas only when there is a current version
  /\ site = "ImageCanvas" => getCurrentVersion # NullVersion
  /\ seg' = SegStart(imageData, site, x, y)
  /\ UNCHANGED <<imageData, maskGenerated>>
  /\ UNCHANGED <<storeVars, brushVars, genVars, pageVars, canvasVars>>

\* the element of position i removed from a pending list
Without(stack, i) == SubSeq(stack, 1, i - 1) \o SubSeq(stack, i + 1, Len(stack))

\* SegStep with a cap on the region: no pixel is accepted once two are visited
SegStepCapped(s, img, i) ==
  LET px == s.stack[i][1]
      py == s.stack[i][2]
      rest == Without(s.stack, i)
      key == py * s.width + px
      skip == [s EXCEPT !.stack = rest]
      \* the colour of the pixel has been compared with the target
      read == [skip EXCEPT !.compared = @ \cup {key},
                           !.recompared = IF key \in s.compared
                                            THEN @ \cup {key} ELSE @]
  IN IF key \in s.visited THEN skip
     ELSE IF px < 0 \/ px >= s.width \/ py < 0 \/ py >= s.height THEN skip
     ELSE IF DiffExceeds(PixelAt(img, key), s.target, s.tolerance) THEN read
     ELSE IF Cardinality(s.visited) >= 2 THEN read
     ELSE [read EXCEPT
             !.visited = @ \cup {key},
             !.maskData = [@ EXCEPT ![key] = White],
             !.minX = MinOf(@, px), !.minY = MinOf(@, py),
             !.maxX = MaxOf(@, px), !.maxY = MaxOf(@, py),
             !.stack = rest \o Neighbours(px, py)]

\* the body of `while (stack.length > 0)` on the pending element of position
\* i: stack.pop() takes the last one, i = Len(stack)
SegStep(s, img, i) ==
  LET px == s.stack[i][1]
      py == s.stack[i][2]
      rest == Without(s.stack, i)
      key == py * s.width + px
      skip == [s EXCEPT !.stack = rest]
      \* the colour of the pixel has been compared with the target
      read == [skip EXCEPT !.compared = @ \cup {key},
                           !.recompared = IF key \in s.compared
                                            THEN @ \cup {key} ELSE @]
  IN IF key \in s.visited THEN skip
     ELSE IF px < 0 \/ px >= s.width \/ py < 0 \/ py >= s.height THEN skip
     ELSE IF DiffExceeds(PixelAt(img, key), s.target, s.tolerance) THEN read
     ELSE [read EXCEPT
             !.visited = @ \cup {key},
             !.maskData = [@ EXCEPT ![key] = White],
             !.minX = MinOf(@, px), !.minY = MinOf(@, py),
             !.maxX = MaxOf(@, px), !.maxY = MaxOf(@, py),
             !.stack = rest \o Neighbours(px, py)]

\* one iteration of `while (stack.length > 0)`
SegLoop ==
  /\ seg.pc = "loop"
  /\ Len(seg.stack) > 0
  /\ seg' = SegStep(seg, imageData, Len(seg.stack))
  /\ UNCHANGED <<imageData, maskGenerated>>
  /\ UNCHANGED <<storeVars, brushVars, genVars, pageVars, canvasVars>>

\* `bounds` computed after the loop
SegBounds(s) ==
  [x |-> MaxOf(0, s.minX - Padding),
   y |-> MaxOf(0, s.minY - Padding),
   width |-> MinOf(s.width - s.minX + Padding, s.maxX - s.minX + Padding * 2),
   height |-> MinOf(s.height - s.minY + Padding, s.maxY - s.minY + Padding * 2)]

\* after the loop: the mask goes to onMaskGenerated or to setCurrentMask
SegFinish ==
  /\ seg.pc = "loop"
  /\ Len(seg.stack) = 0
  /\ seg' = [seg EXCEPT !.pc = "done"]
  /\ IF seg.site = "SegmentationCanvas"
       THEN /\ maskGenerated' = [maskData |-> seg.maskData, bounds |-> SegBounds(seg)]
            /\ UNCHANGED storeVars
       ELSE /\ nextId <= MaxIds
            /\ currentMask' = [id |-> nextId, imageData |-> seg.maskData,
                               bounds |-> SegBounds(seg)]
            /\ nextId' = nextId + 1
            /\ lastCall' = Call("setCurrentMask", nextId)
            /\ UNCHANGED <<project, selectedFlawId, promptText, now, maskGenerated>>
  /\ UNCHANGED <<imageData, brushVars, genVars, pageVars, canvasVars>>

(***************************************************************************)
(* Brush painting: the mask canvas of ImageCanvas and of BrushMaskCanvas.  *)
(* The canvases are painted on once the image has loaded.                  *)
(***************************************************************************)
BrushSites == {"ImageCanvas", "BrushMaskCanvas"}
\* sizes (width, height) of the images a mask canvas is laid over
CanvasSizes == {<<2, 2>>, <<3, 1>>}
\* `brushSize`, the radius handed to ctx.arc, in pixels
BrushSizes == {1, 2}
\* the mask canvas before the image has loaded
NullCanvas == [isNull |-> TRUE]

\* fillStyle 'black' and 'white' on an opaque canvas: equal R, G, B, alpha 255
Grey(g) == <<g, g, g, 255>>
Black == Grey(0)

\* pointer positions: the middle of pixel (cx, cy) of the canvas
PointerAt(c) ==
  IF c = NullCanvas THEN {}
  ELSE (0..(c.width - 1)) \X (0..(c.height - 1))

\* how many of the four corners of pixel (i, j) lie in the disc of radius r
\* about the middle of pixel (cx, cy); lengths doubled to stay in integers
CornersInside(i, j, cx, cy, r) ==
  Cardinality({d \in {0, 2} \X {0, 2} :
                 (2 * i + d[1] - (2 * cx + 1)) * (2 * i + d[1] - (2 * cx + 1))
                   + (2 * j + d[2] - (2 * cy + 1)) * (2 * j + d[2] - (2 * cy + 1))
                   <= 4 * r * r})

\* source-over of white on an opaque pixel of level old, the anti-aliased
\* coverage of the pixel taken as n quarters
Blend(old, n) == old + ((255 - old) * n) \div 4

\* drawBrush that replaces the pixels it touches instead of compositing
drawBrushReplace(c, cx, cy, r) ==
  [c EXCEPT !.data =
     [k \in DOMAIN c.data |->
        LET n == CornersInside(k % c.width, k \div c.width, cx, cy, r)
        IN IF n = 0 THEN c.data[k] ELSE Grey((255 * n) \div 4)]]

\* drawBrush: ctx.fillStyle = 'white'; ctx.arc(x, y, brushSize, 0, 2 PI); fill
drawBrush(c, cx, cy, r) ==
  [c EXCEPT !.data =
     [k \in DOMAIN c.data |->
        Grey(Blend(c.data[k][1],
                   CornersInside(k % c.width, k \div c.width, cx, cy, r)))]]

\* MaskSelected with the convention inverted (dark pixels read as selected)
MaskSelectedInverted(m) == {k \in DOMAIN m : m[k][1] < 128}

\* a consumer reads a mask pixel as selected when its red channel exceeds 128
MaskSelected(m) == {k \in DOMAIN m : m[k][1] > 128}

\* `let hasWhite = true` in place of false
hasWhiteUnset(c) == TRUE

\* the scan of the mask canvas: hasWhite
hasWhite(c) == MaskSelected(c.data) # {}

\* the scan of the mask canvas: minX = width, minY = height, maxX = maxY = 0,
\* narrowed by every pixel whose red channel exceeds 128
ScanBounds(c) ==
  LET sel == MaskSelected(c.data)
      minX == Min({k % c.width : k \in sel} \cup {c.width})
      minY == Min({k \div c.width : k \in sel} \cup {c.height})
      maxX == 0 - Min({0 - (k % c.width) : k \in sel} \cup {0})
      maxY == 0 - Min({0 - (k \div c.width) : k \in sel} \cup {0})
  IN [x |-> minX, y |-> minY, width |-> maxX - minX, height |-> maxY - minY]

\* img.onload: the mask canvas takes the image's size and is filled black
BrushImageLoad(site, size) ==
  /\ maskCanvas = NullCanvas
  /\ maskCanvas' = [site |-> site, width |-> size[1], height |-> size[2],
                    data |-> [k \in 0..(size[1] * size[2] - 1) |-> Black]]
  /\ stampCount' = 0
  /\ UNCHANGED isDrawing
  /\ UNCHANGED <<storeVars, segVars, genVars, pageVars, canvasVars>>
  /\ lastBrush' = "load"

\* ImageCanvas, mouse down with the mask tool active
handleBrushStart(cx, cy, r) ==
  /\ maskCanvas # NullCanvas
  /\ maskCanvas.site = "ImageCanvas"
  /\ stampCount < MaxStamps
  /\ isDrawing' = TRUE
  /\ maskCanvas' = drawBrush(maskCanvas, cx, cy, r)
  /\ stampCount' = stampCount + 1
  /\ UNCHANGED <<storeVars, segVars, genVars, pageVars, canvasVars>>
  /\ lastBrush' = "start"

\* ImageCanvas, mouse move
handleBrushMove(cx, cy, r) ==
  /\ maskCanvas # NullCanvas
  /\ maskCanvas.site = "ImageCanvas"
  /\ isDrawing
  /\ stampCount < MaxStamps
  /\ maskCanvas' = drawBrush(maskCanvas, cx, cy, r)
  /\ stampCount' = stampCount + 1
  /\ UNCHANGED isDrawing
  /\ UNCHANGED <<storeVars, segVars, genVars, pageVars, canvasVars>>
  /\ lastBrush' = "move"

\* ImageCanvas, mouse up or mouse leave: updateMaskFromCanvas
handleBrushEnd ==
  /\ maskCanvas # NullCanvas
  /\ maskCanvas.site = "ImageCanvas"
  /\ isDrawing
  /\ isDrawing' = FALSE
  /\ IF hasWhite(maskCanvas)
       THEN /\ nextId <= MaxIds
            /\ currentMask' = [id |-> nextId, imageData |-> maskCanvas.data,
                               bounds |-> ScanBounds(maskCanvas)]
            /\ nextId' = nextId + 1
            /\ lastCall' = Call("setCurrentMask", nextId)
       ELSE /\ currentMask' = NullMask
            /\ lastCall' = Call("setCurrentMask", Null)
            /\ UNCHANGED nextId
  /\ UNCHANGED <<project, selectedFlawId, promptText, now>>
  /\ UNCHANGED <<maskCanvas, stampCount>>
  /\ UNCHANGED <<segVars, genVars, pageVars, canvasVars>>
  /\ lastBrush' = "end"

\* BrushMaskCanvas, mouse down while the component is active
handleMouseDown(cx, cy, r) ==
  /\ maskCanvas # NullCanvas
  /\ maskCanvas.site = "BrushMaskCanvas"
  /\ stampCount < MaxStamps
  /\ isDrawing' = TRUE
  /\ maskCanvas' = drawBrush(maskCanvas, cx, cy, r)
  /\ stampCount' = stampCount + 1
  /\ UNCHANGED <<storeVars, segVars, genVars, pageVars, canvasVars>>
  /\ lastBrush' = "start"

\* BrushMaskCanvas, mouse move
handleMouseMove(cx, cy, r) ==
  /\ maskCanvas # NullCanvas
  /\ maskCanvas.site = "BrushMaskCanvas"
  /\ isDrawing
  /\ stampCount < MaxStamps
  /\ maskCanvas' = drawBrush(maskCanvas, cx, cy, r)
  /\ stampCount' = stampCount + 1
  /\ UNCHANGED isDrawing
  /\ UNCHANGED <<storeVars, segVars, genVars, pageVars, canvasVars>>
  /\ lastBrush' = "move"

\* BrushMaskCanvas, mouse up or mouse leave
handleMouseUp ==
  /\ maskCanvas # NullCanvas
  /\ maskCanvas.site = "BrushMaskCanvas"
  /\ isDrawing
  /\ isDrawing' = FALSE
  /\ IF hasWhite(maskCanvas)
       THEN /\ nextId <= MaxIds
            /\ currentMask' = [id |-> nextId, imageData |-> maskCanvas.data,
                               bounds |-> ScanBounds(maskCanvas)]
            /\ nextId' = nextId + 1
            /\ lastCall' = Call("setCurrentMask", nextId)
       ELSE UNCHANGED <<currentMask, nextId, lastCall>>
  /\ UNCHANGED <<project, selectedFlawId, promptText, now>>
  /\ UNCHANGED <<maskCanvas, stampCount>>
  /\ UNCHANGED <<segVars, genVars, pageVars, canvasVars>>
  /\ lastBrush' = "end"

\* the Clear Mask button of either component
clearMask ==
  /\ maskCanvas # NullCanvas
  /\ maskCanvas' = [maskCanvas EXCEPT !.data = [k \in DOMAIN @ |-> Black]]
  /\ stampCount' = 0
  /\ currentMask' = NullMask
  /\ lastCall' = Call("setCurrentMask", Null)
  /\ UNCHANGED isDrawing
  /\ UNCHANGED <<project, selectedFlawId, promptText, nextId, now>>
  /\ UNCHANGED <<segVars, genVars, pageVars, canvasVars>>
  /\ lastBrush' = "clear"

(***************************************************************************)
(* Generation: handleGenerate of Toolbar and of WizardFlow, generateImage  *)
(* of lib/api.ts and the steps of the wizard.  A request is the part of a  *)
(* handleGenerate call that waits for generateImage: the values the call   *)
(* read before the await stay with it.                                     *)
(***************************************************************************)
\* `error.detail || 'Generation failed'`
ErrorMessage(detail) == IF detail = "" THEN "Generation failed" ELSE detail

\* promptTemplate of the INTENT_OPTIONS: a filled template and the empty one
\* of 'custom'
PromptTemplates == {"edit", ""}

Request(site, currentVersion, prompt, mask) ==
  [site |-> site, currentVersion |-> currentVersion.id,
   imageBase64 |-> currentVersion.imageUrl, prompt |-> prompt, mask |-> mask]

RemoveAt(q, i) == [j \in 1..(Len(q) - 1) |-> IF j < i THEN q[j] ELSE q[j + 1]]

\* handleGenerate with a `setCurrentMask(null)` before the await
handleGenerateDiscardsMask ==
  /\ ~isGenerating
  /\ getCurrentVersion # NullVersion
  /\ promptText # ""
  /\ Len(requests) < MaxInFlight
  /\ toolbarError' = NoError
  /\ isGenerating' = TRUE
  /\ requests' = Append(requests,
                        Request("Toolbar", getCurrentVersion, promptText, currentMask))
  /\ currentMask' = NullMask
  /\ UNCHANGED wizard
  /\ UNCHANGED lastResolved
  /\ UNCHANGED <<project, selectedFlawId, promptText, nextId, now, lastCall>>
  /\ UNCHANGED <<segVars, brushVars, pageVars, canvasVars>>

\* Toolbar: the Generate button or Enter in the prompt field; both are dead
\* while the prompt is blank or isGenerating is set
handleGenerate ==
  /\ ~isGenerating
  /\ getCurrentVersion # NullVersion
  /\ promptText # ""
  /\ Len(requests) < MaxInFlight
  /\ toolbarError' = NoError
  /\ isGenerating' = TRUE
  /\ requests' = Append(requests,
                        Request("Toolbar", getCurrentVersion, promptText, currentMask))
  /\ UNCHANGED wizard
  /\ UNCHANGED lastResolved
  /\ UNCHANGED <<storeVars, segVars, brushVars, pageVars, canvasVars>>

\* WizardFlow.handleGenerate with the pointer of the store left alone
wizardHandleGenerate ==
  IF getCurrentVersion = NullVersion \/ wizard.customPrompt = ""
    THEN /\ wizard' = [wizard EXCEPT !.step = "generate"]
         /\ UNCHANGED requests
    ELSE /\ Len(requests) < MaxInFlight
         /\ wizard' = [wizard EXCEPT !.step = "generate", !.isGenerating = TRUE,
                                     !.error = NoError]
         /\ requests' = Append(requests,
                               Request("WizardFlow", getCurrentVersion,
                                       wizard.customPrompt, currentMask))

canProceed ==
  CASE wizard.step = "upload" -> project # NullProject
    [] wizard.step = "intent" -> wizard.selectedIntent
    [] wizard.step = "mask" -> currentMask # NullMask
    [] wizard.step = "prompt" -> wizard.customPrompt # ""
    [] wizard.step = "generate" -> ~wizard.isGenerating
    [] wizard.step = "review" -> TRUE

handleIntentSelect(promptTemplate) ==
  /\ wizard.step = "intent"
  /\ wizard' = [wizard EXCEPT !.selectedIntent = TRUE,
                              !.customPrompt = IF promptTemplate # ""
                                                 THEN promptTemplate ELSE @,
                              !.step = "mask"]
  /\ UNCHANGED <<isGenerating, toolbarError, requests>>
  /\ UNCHANGED lastResolved
  /\ UNCHANGED <<storeVars, segVars, brushVars, pageVars, canvasVars>>

\* StepPrompt: onChange of the text area
setCustomPrompt(text) ==
  /\ wizard.step = "prompt"
  /\ wizard' = [wizard EXCEPT !.customPrompt = text]
  /\ UNCHANGED <<isGenerating, toolbarError, requests>>
  /\ UNCHANGED lastResolved
  /\ UNCHANGED <<storeVars, segVars, brushVars, pageVars, canvasVars>>

\* the Next button: not rendered at 'generate', disabled unless canProceed();
\* at 'review' it calls the onComplete of the parent
goNext ==
  /\ wizard.step \notin {"generate", "review"}
  /\ canProceed
  /\ CASE wizard.step = "upload" ->
            wizard' = [wizard EXCEPT !.step = "intent"] /\ UNCHANGED requests
       [] wizard.step = "intent" ->
            wizard' = [wizard EXCEPT !.step = "mask"] /\ UNCHANGED requests
       [] wizard.step = "mask" ->
            wizard' = [wizard EXCEPT !.step = "prompt"] /\ UNCHANGED requests
       [] wizard.step = "prompt" -> wizardHandleGenerate
  /\ UNCHANGED <<isGenerating, toolbarError>>
  /\ UNCHANGED lastResolved
  /\ UNCHANGED <<storeVars, segVars, brushVars, pageVars, canvasVars>>

\* the Back button: at 'upload' it calls the onCancel of the parent
goBack ==
  /\ wizard.step # "upload"
  /\ CASE wizard.step = "intent" ->
            wizard' = [wizard EXCEPT !.step = "upload"] /\ UNCHANGED storeVars
       [] wizard.step = "mask" ->
            wizard' = [wizard EXCEPT !.step = "intent"] /\ UNCHANGED storeVars
       [] wizard.step = "prompt" ->
            wizard' = [wizard EXCEPT !.step = "mask"] /\ UNCHANGED storeVars
       [] wizard.step = "generate" ->
            wizard' = [wizard EXCEPT !.step = "prompt"] /\ UNCHANGED storeVars
       [] wizard.step = "review" ->
            /\ wizard' = [wizard EXCEPT !.step = "mask"]
            /\ currentMask' = NullMask
            /\ lastCall' = Call("setCurrentMask", Null)
            /\ UNCHANGED <<project, selectedFlawId, promptText, nextId, now>>
  /\ UNCHANGED <<isGenerating, toolbarError, requests>>
  /\ UNCHANGED lastResolved
  /\ UNCHANGED <<segVars, brushVars, pageVars, canvasVars>>

\* StepReview: 'Try again'; the step is hidden while isGenerating
onTryAgain ==
  /\ wizard.step = "review"
  /\ ~wizard.isGenerating
  /\ wizard' = [wizard EXCEPT !.step = "mask"]
  /\ UNCHANGED <<isGenerating, toolbarError, requests>>
  /\ UNCHANGED lastResolved
  /\ UNCHANGED <<storeVars, segVars, brushVars, pageVars, canvasVars>>

\* generateImage returned for request i: the rest of the try block, then
\* the finally block
generateResolvedAtPointer(i, imageUrl) ==
  /\ i \in 1..Len(requests)
  /\ LET r == requests[i]
     IN /\ addVersionState(imageUrl, r.prompt, r.mask, project.currentVersionId)
        /\ IF r.site = "Toolbar"
             THEN /\ isGenerating' = FALSE
                  /\ UNCHANGED wizard
             ELSE /\ wizard' = [wizard EXCEPT !.step = "review",
                                              !.isGenerating = FALSE]
                  /\ UNCHANGED isGenerating
  /\ requests' = RemoveAt(requests, i)
  /\ lastResolved' = [parent |-> requests[i].currentVersion,
                      pointer |-> project.currentVersionId]
  /\ UNCHANGED toolbarError
  /\ UNCHANGED <<segVars, brushVars, pageVars, canvasVars>>

generateResolved(i, imageUrl) ==
  /\ i \in 1..Len(requests)
  /\ LET r == requests[i]
     IN /\ addVersionState(imageUrl, r.prompt, r.mask, r.currentVersion)
        /\ IF r.site = "Toolbar"
             THEN /\ isGenerating' = FALSE
                  /\ UNCHANGED wizard
             ELSE /\ wizard' = [wizard EXCEPT !.step = "review",
                                              !.isGenerating = FALSE]
                  /\ UNCHANGED isGenerating
  /\ requests' = RemoveAt(requests, i)
  /\ lastResolved' = [parent |-> requests[i].currentVersion,
                      pointer |-> project.currentVersionId]
  /\ UNCHANGED toolbarError
  /\ UNCHANGED <<segVars, brushVars, pageVars, canvasVars>>

\* generateImage threw for request i: the catch block, then the finally block
generateRejectedRetries(i, detail) ==
  /\ i \in 1..Len(requests)
  /\ LET r == requests[i]
     IN IF r.site = "Toolbar"
          THEN /\ toolbarError' = ErrorMessage(detail)
               /\ isGenerating' = TRUE
               /\ UNCHANGED wizard
          ELSE /\ wizard' = [wizard EXCEPT !.error = ErrorMessage(detail),
                                           !.isGenerating = TRUE]
               /\ UNCHANGED <<isGenerating, toolbarError>>
  /\ requests' = requests
  /\ UNCHANGED lastResolved
  /\ UNCHANGED <<storeVars, segVars, brushVars, pageVars, canvasVars>>

generateRejected(i, detail) ==
  /\ i \in 1..Len(requests)
  /\ LET r == requests[i]
     IN IF r.site = "Toolbar"
          THEN /\ toolbarError' = ErrorMessage(detail)
               /\ isGenerating' = FALSE
               /\ UNCHANGED wizard
          ELSE /\ wizard' = [wizard EXCEPT !.error = ErrorMessage(detail),
                                           !.isGenerating = FALSE]
               /\ UNCHANGED <<isGenerating, toolbarError>>
  /\ requests' = RemoveAt(requests, i)
  /\ UNCHANGED lastResolved
  /\ UNCHANGED <<storeVars, segVars, brushVars, pageVars, canvasVars>>

(***************************************************************************)
(***************************************************************************)
(* The editor page (ProjectEditorPage): its own list of renders, the       *)
(* thumbnails under the image and handleChatGenerate.  The image a render  *)
(* returned is told by its number: render n is the n-th /api/edit returned.*)
(***************************************************************************)
\* ChatInterface calls onGenerateRender; it does not while isGenerating
\* (= isLoading) is set or a call of its own is running
handleChatGenerate ==
  /\ ~isLoading
  /\ chatGenerate = NoChatGenerate
  /\ isLoading' = TRUE
  /\ chatGenerate' = [pending |-> TRUE, versions |-> versions,
                      currentVersionIndex |-> currentVersionIndex]
  /\ UNCHANGED <<versions, currentVersionIndex, renderCount>>
  /\ UNCHANGED <<storeVars, segVars, brushVars, genVars, canvasVars>>

\* the list handleChatGenerate builds from the list and index it read
NewVersions(old, index, newVersion) ==
  IF Len(old) = 0 THEN <<newVersion>>
  ELSE Append(SubSeq(old, 1, index + 1), newVersion)

\* /api/edit returned a render: the rest of the try block, then the finally
chatGenerateResolved ==
  /\ chatGenerate # NoChatGenerate
  /\ renderCount < MaxRenders
  /\ LET newVersion == [id |-> Len(chatGenerate.versions) + 1,
                        imageUrl |-> renderCount + 1]
         newVersions == NewVersions(chatGenerate.versions,
                                    chatGenerate.currentVersionIndex, newVersion)
     IN /\ versions' = newVersions
        /\ currentVersionIndex' = Len(newVersions) - 1
  /\ renderCount' = renderCount + 1
  /\ isLoading' = FALSE
  /\ chatGenerate' = NoChatGenerate
  /\ UNCHANGED <<storeVars, segVars, brushVars, genVars, canvasVars>>

\* /api/edit failed: the catch block, then the finally
chatGenerateRejected ==
  /\ chatGenerate # NoChatGenerate
  /\ isLoading' = FALSE
  /\ chatGenerate' = NoChatGenerate
  /\ UNCHANGED <<versions, currentVersionIndex, renderCount>>
  /\ UNCHANGED <<storeVars, segVars, brushVars, genVars, canvasVars>>

\* a thumbnail: 'Original' is index -1; the strip shows once there is a render
selectThumbnail(index) ==
  /\ Len(versions) > 0
  /\ index \in (0 - 1)..(Len(versions) - 1)
  /\ currentVersionIndex' = index
  /\ UNCHANGED <<versions, isLoading, chatGenerate, renderCount>>
  /\ UNCHANGED <<storeVars, segVars, brushVars, genVars, canvasVars>>

(***************************************************************************)
(* ImageCanvas on the store: the image effect, its asynchronous loads, and *)
(* the Toolbar's mask indicator.                                           *)
(***************************************************************************)
\* what the browser decodes from an image url: the upload and a render of
\* another size
Decoded(url) ==
  IF url = "imgA"
    THEN [width |-> 2, height |-> 2, data |-> [k \in 0..3 |-> <<0, 0, 0, 255>>]]
    ELSE [width |-> 3, height |-> 1, data |-> [k \in 0..2 |-> <<40, 40, 40, 255>>]]

\* the image effect has run for the current version's image
EffectsRun ==
  getCurrentVersion # NullVersion => effectUrl = getCurrentVersion.imageUrl

\* useEffect(..., [currentVersion?.imageUrl]): a new Image is given the url
imageEffect ==
  /\ getCurrentVersion # NullVersion
  /\ effectUrl # getCurrentVersion.imageUrl
  /\ effectUrl' = getCurrentVersion.imageUrl
  /\ loading' = loading \cup {getCurrentVersion.imageUrl}
  /\ UNCHANGED <<storeVars, segVars, brushVars, genVars, pageVars>>

\* img.onload of one of the Images: both canvases take the image's size, the
\* image is drawn and read back, the mask canvas is filled black
imageOnload(url) ==
  /\ url \in loading
  /\ seg.pc = "idle"
  /\ loading' = loading \ {url}
  /\ imageData' = Decoded(url)
  /\ maskCanvas' = [site |-> "ImageCanvas",
                    width |-> Decoded(url).width, height |-> Decoded(url).height,
                    data |-> [k \in 0..(Decoded(url).width * Decoded(url).height - 1)
                                |-> Black]]
  /\ stampCount' = 0
  /\ lastBrush' = "load"
  /\ UNCHANGED <<isDrawing, effectUrl, seg, maskGenerated>>
  /\ UNCHANGED <<storeVars, genVars, pageVars>>

\* Toolbar: the X of the 'Mask active' indicator, shown while a mask is current
clearMaskIndicator ==
  /\ currentMask # NullMask
  /\ setCurrentMask(NullMask)

(* Specifications.                                                         *)
(***************************************************************************)
\* no generation requested, the wizard at its first step
InitWizard ==
  [step |-> "upload", selectedIntent |-> FALSE, customPrompt |-> "",
   isGenerating |-> FALSE, error |-> NoError]

\* a project opened with no renders yet
InitPageVars ==
  /\ versions = <<>>
  /\ currentVersionIndex = 0 - 1
  /\ isLoading = FALSE
  /\ chatGenerate = NoChatGenerate
  /\ renderCount = 0

\* ImageCanvas before its first effect
InitCanvasVars ==
  /\ effectUrl = ""
  /\ loading = {}

InitGenVars ==
  /\ isGenerating = FALSE
  /\ toolbarError = NoError
  /\ requests = <<>>
  /\ wizard = InitWizard
  /\ lastResolved = [parent |-> Null, pointer |-> Null]

InitStore ==
  /\ project = NullProject
  /\ currentMask = NullMask
  /\ selectedFlawId = Null
  /\ promptText = ""
  /\ nextId = 1
  /\ now = 0
  /\ lastCall = Call("none", Null)

\* the store alone: no image has been loaded into a canvas
Init ==
  /\ InitStore
  /\ imageData = NullImage
  /\ seg = SegIdle
  /\ maskGenerated = NoMaskGenerated
  /\ maskCanvas = NullCanvas
  /\ isDrawing = FALSE
  /\ stampCount = 0
  /\ lastBrush = "none"
  /\ InitGenVars
  /\ InitPageVars
  /\ InitCanvasVars

Next ==
  \/ \E name \in Names, url \in ImageUrls : createProject(name, url)
  \/ \E id \in IdInputs : setCurrentVersion(id)
  \/ \E url \in ResultUrls, prompt \in Prompts, mask \in {NullMask, currentMask},
          parentId \in IdInputs :
       addVersion(url, prompt, mask, parentId)
  \/ \E text \in PromptTexts : setPromptText(text)
  \/ \E mask \in MaskInputs : setCurrentMask(mask)
  \/ \E point \in Points, d \in Descriptions : addFlaw(point, d)
  \/ \E id \in FlawIds(project) \cup {BogusId} : resolveFlaw(id)
  \/ \E id \in FlawIds(project) \cup {Null} : selectFlaw(id)

Spec == Init /\ [][Next]_vars

\* one click on a loaded image, run to completion; a photo has been uploaded
\* (the store is in the state createProject("photo", "imgA") leaves)
UploadedProject ==
  [id |-> 1, name |-> "photo",
   versions |-> <<[id |-> 2, imageUrl |-> "imgA", parentId |-> Null,
                   prompt |-> "Original upload", mask |-> NullMask, flaws |-> <<>>,
                   createdAt |-> 0]>>,
   currentVersionId |-> 2, createdAt |-> 0, updatedAt |-> 0]

InitSeg ==
  /\ project = UploadedProject
  /\ currentMask = NullMask
  /\ selectedFlawId = Null
  /\ promptText = ""
  /\ nextId = 3
  /\ now = 1
  /\ lastCall = Call("createProject", Null)
  /\ imageData = NullImage
  /\ seg = SegIdle
  /\ maskGenerated = NoMaskGenerated
  /\ maskCanvas = NullCanvas
  /\ isDrawing = FALSE
  /\ stampCount = 0
  /\ lastBrush = "none"
  /\ InitGenVars
  /\ InitPageVars
  /\ InitCanvasVars

NextSeg ==
  \/ \E img \in Images : ImageLoad(img)
  \/ \E site \in Sites, xy \in SeedsOf(imageData) : segmentAtPoint(site, xy[1], xy[2])
  \/ SegLoop
  \/ SegFinish

SpecSeg == InitSeg /\ [][NextSeg]_vars

\* painting on the mask canvas of one mounted component; a photo has been
\* uploaded
InitBrush ==
  /\ project = UploadedProject
  /\ currentMask = NullMask
  /\ selectedFlawId = Null
  /\ promptText = ""
  /\ nextId = 3
  /\ now = 1
  /\ lastCall = Call("createProject", Null)
  /\ imageData = NullImage
  /\ seg = SegIdle
  /\ maskGenerated = NoMaskGenerated
  /\ maskCanvas = NullCanvas
  /\ isDrawing = FALSE
  /\ stampCount = 0
  /\ lastBrush = "none"
  /\ InitGenVars
  /\ InitPageVars
  /\ InitCanvasVars

NextBrush ==
  \/ \E site \in BrushSites, size \in CanvasSizes : BrushImageLoad(site, size)
  \/ \E xy \in PointerAt(maskCanvas), r \in BrushSizes : handleBrushStart(xy[1], xy[2], r)
  \/ \E xy \in PointerAt(maskCanvas), r \in BrushSizes : handleBrushMove(xy[1], xy[2], r)
  \/ handleBrushEnd
  \/ \E xy \in PointerAt(maskCanvas), r \in BrushSizes : handleMouseDown(xy[1], xy[2], r)
  \/ \E xy \in PointerAt(maskCanvas), r \in BrushSizes : handleMouseMove(xy[1], xy[2], r)
  \/ handleMouseUp
  \/ clearMask

SpecBrush == InitBrush /\ [][NextBrush]_vars

\* editing with the Toolbar and the version strip; a photo has been uploaded
InitGen ==
  /\ project = UploadedProject
  /\ currentMask = NullMask
  /\ selectedFlawId = Null
  /\ promptText = ""
  /\ nextId = 3
  /\ now = 1
  /\ lastCall = Call("createProject", Null)
  /\ imageData = NullImage
  /\ seg = SegIdle
  /\ maskGenerated = NoMaskGenerated
  /\ maskCanvas = NullCanvas
  /\ isDrawing = FALSE
  /\ stampCount = 0
  /\ lastBrush = "none"
  /\ InitGenVars
  /\ InitPageVars
  /\ InitCanvasVars

NextGen ==
  \/ \E id \in VersionIds(project) : setCurrentVersion(id)
  \/ \E text \in PromptTexts : setPromptText(text)
  \/ \E mask \in MaskInputs : setCurrentMask(mask)
  \/ handleGenerate
  \/ \E i \in 1..Len(requests), url \in ResultUrls : generateResolved(i, url)
  \/ \E i \in 1..Len(requests), d \in FailureDetails : generateRejected(i, d)

SpecGen == InitGen /\ [][NextGen]_vars

\* the wizard, opened on an uploaded photo
NextWizard ==
  \/ \E mask \in MaskInputs : setCurrentMask(mask)
  \/ \E t \in PromptTemplates : handleIntentSelect(t)
  \/ \E text \in PromptTexts : setCustomPrompt(text)
  \/ goNext
  \/ goBack
  \/ onTryAgain
  \/ \E i \in 1..Len(requests), url \in ResultUrls : generateResolved(i, url)
  \/ \E i \in 1..Len(requests), d \in FailureDetails : generateRejected(i, d)

SpecWizard == InitGen /\ [][NextWizard]_vars

\* the editor page with its chat
NextEditor ==
  \/ handleChatGenerate
  \/ chatGenerateResolved
  \/ chatGenerateRejected
  \/ \E index \in (0 - 1)..(Len(versions) - 1) : selectThumbnail(index)

SpecEditor == InitGen /\ [][NextEditor]_vars

\* painting in ImageCanvas while versions are switched and added; user and
\* store events come once the effect of the last render has run
NextCanvas ==
  \/ imageEffect
  \/ \E url \in loading : imageOnload(url)
  \/ EffectsRun /\ \E id \in VersionIds(project) : setCurrentVersion(id)
  \/ EffectsRun /\ \E url \in ResultUrls, prompt \in Prompts :
                     addVersion(url, prompt, NullMask, project.currentVersionId)
  \/ EffectsRun /\ handleBrushStart(0, 0, 1)
  \/ EffectsRun /\ handleBrushMove(0, 0, 1)
  \/ EffectsRun /\ handleBrushEnd
  \/ EffectsRun /\ clearMask
  \/ EffectsRun /\ clearMaskIndicator

SpecCanvas == InitGen /\ [][NextCanvas]_vars

(***************************************************************************)
(* Properties of the version graph (checked under Spec).                   *)
(***************************************************************************)
Versions(p) == {p.versions[i] : i \in 1..Len(p.versions)}

\* the arguments a caller may pass to addVersion in the current state
AddVersionArgs == ResultUrls \X Prompts \X {NullMask, currentMask} \X IdInputs

\* C1: addVersion with a parentId that is the id of no Version of the project
\* fails with NotFound and leaves the version set and the current pointer as
\* they were.
C1_AbsentParentRejected ==
  [][\A a \in AddVersionArgs :
       (/\ project # NullProject
        /\ a[4] \notin VersionIds(project)
        /\ addVersion(a[1], a[2], a[3], a[4]))
       => /\ lastCall'.error = "NotFound"
          /\ project'.versions = project.versions
          /\ project'.currentVersionId = project.currentVersionId]_vars

\* C2: in every reachable state the current pointer is the id of a Version
\* present in the project's version set.
C2_CurrentInSet ==
  project # NullProject => project.currentVersionId \in VersionIds(project)

\* C3: a successful addVersion(parentId, ...) adds exactly one Version, whose
\* parent is parentId and whose id is new, makes it current, and leaves every
\* existing Version record as it was.
C3_AddVersionFrame ==
  [][\A a \in AddVersionArgs :
       (/\ project # NullProject
        /\ a[4] \in VersionIds(project)
        /\ addVersion(a[1], a[2], a[3], a[4]))
       => /\ Len(project'.versions) = Len(project.versions) + 1
          /\ Versions(project) \subseteq Versions(project')
          /\ \E v \in Versions(project') \ Versions(project) :
               /\ v.id \notin VersionIds(project)
               /\ v.parentId = a[4]
               /\ v.imageUrl = a[1] /\ v.prompt = a[2] /\ v.mask = a[3]
               /\ project'.currentVersionId = v.id]_vars

\* C3 witness: the last call was an addVersion on an existing parent, and the
\* appended Version is current.
C3_Witness ==
  /\ project # NullProject
  /\ lastCall.op = "addVersion"
  /\ Len(project.versions) >= 2
  /\ LET v == project.versions[Len(project.versions)]
     IN /\ v.parentId = lastCall.arg
        /\ v.parentId \in VersionIds(project)
        /\ project.currentVersionId = v.id

\* C4: the version set is append-only: a Version once in the set is in the set
\* in every later state, whatever store action runs (createProject included).
C4_AppendOnly ==
  [][VersionIds(project) \subseteq VersionIds(project')]_vars

\* the Version an addVersion step appended: the one whose id was not there before
Added(p, q) == CHOOSE v \in Versions(q) : v.id \notin VersionIds(p)

\* C5: forking. When addVersion(parentId = R.id) creates B while root R already
\* has a child A, both A and B are in the version set, R is unmodified,
\* history(A.id) = [R, A] (as before B was created) and history(B.id) = [R, B].
C5_Fork ==
  [][\A a \in AddVersionArgs :
       (project # NullProject /\ addVersion(a[1], a[2], a[3], a[4]))
       => \A R \in Versions(project), A \in Versions(project) :
            (R.id = a[4] /\ R.parentId = Null /\ A.parentId = R.id)
            => LET B == Added(project, project')
               IN /\ A \in Versions(project')
                  /\ B \in Versions(project')
                  /\ R \in Versions(project')
                  /\ B.id # A.id
                  /\ HistoryFrom(project, A.id) = <<R, A>>
                  /\ HistoryFrom(project', A.id) = <<R, A>>
                  /\ HistoryFrom(project', B.id) = <<R, B>>]_vars

\* C5 witness: a root with two children, the second just created by addVersion.
C5_Witness ==
  /\ project # NullProject
  /\ lastCall.op = "addVersion"
  /\ Len(project.versions) = 3
  /\ project.versions[1].parentId = Null
  /\ project.versions[2].parentId = project.versions[1].id
  /\ project.versions[3].parentId = project.versions[1].id
  /\ lastCall.arg = project.versions[1].id

\* the shape C6 asks of a history h whose target is the Version with this id
RootToTarget(h, id) ==
  /\ Len(h) >= 1
  /\ h[1].parentId = Null
  /\ h[Len(h)].id = id
  /\ \A k \in 1..(Len(h) - 1) : h[k + 1].parentId = h[k].id

\* C6: history returns the parent chain of its target (default: the current
\* version) in root-to-target order: the first element has a null parent, the
\* last is the target, each element is the parent of the next; on a fresh root
\* it is the one-element sequence of the root.
C6_HistoryRootToTarget ==
  project # NullProject =>
    /\ RootToTarget(getVersionHistory, project.currentVersionId)
    /\ \A id \in VersionIds(project) : RootToTarget(HistoryFrom(project, id), id)
    /\ (Len(project.versions) = 1 /\ lastCall.op = "createProject")
         => getVersionHistory = <<project.versions[1]>>

\* following parent references from id: TRUE when the walk stays inside the
\* version set and meets a null parent within fuel steps
RECURSIVE ChainEnds(_, _, _)
ChainEnds(p, id, fuel) ==
  IF id \notin VersionIds(p) THEN FALSE
  ELSE IF getVersionByIdIn(p, id).parentId = Null THEN TRUE
  ELSE IF fuel = 0 THEN FALSE
  ELSE ChainEnds(p, getVersionByIdIn(p, id).parentId, fuel - 1)

\* C7: from every Version of the set, the parent references visit only Versions
\* of the set, repeat none, and end at a Version with a null parent.
C7_ParentChainEnds ==
  project # NullProject =>
    \A id \in VersionIds(project) : ChainEnds(project, id, Len(project.versions))

\* C8: createProject on a store that already holds a project (and so a root) is
\* rejected and replaces neither the root nor the versions.
C8_SecondRootRejected ==
  [][\A name \in Names, url \in ImageUrls :
       (project # NullProject /\ createProject(name, url))
       => /\ lastCall'.error # "none"
          /\ project' = project]_vars

\* C9 as claimed: setCurrentVersion with an id of the set changes the current
\* pointer and nothing else (updatedAt aside): versions, current mask, selected
\* flaw and prompt text stay.
C9_OnlyPointerMoves ==
  [][\A id \in VersionIds(project) :
       setCurrentVersion(id)
       => /\ project'.currentVersionId = id
          /\ project'.versions = project.versions
          /\ currentMask' = currentMask
          /\ selectedFlawId' = selectedFlawId
          /\ promptText' = promptText]_vars

\* C9 amended: setCurrentVersion with an id of the set moves the current
\* pointer to it, leaves the version set, every Version record, the project's
\* id, name and createdAt, and the prompt text unchanged, and also resets the
\* current mask and the selected flaw to null and refreshes updatedAt.
C9_PointerMovesMaskCleared ==
  [][\A id \in VersionIds(project) :
       setCurrentVersion(id)
       => /\ project' = [project EXCEPT !.currentVersionId = id, !.updatedAt = now]
          /\ currentMask' = NullMask
          /\ selectedFlawId' = Null
          /\ promptText' = promptText
          /\ nextId' = nextId]_vars

\* C9 witness: the pointer was moved back to an older Version of a project
\* with several versions.
C9_Witness ==
  /\ project # NullProject
  /\ lastCall.op = "setCurrentVersion"
  /\ Len(project.versions) >= 2
  /\ lastCall.arg = project.versions[1].id
  /\ project.versions[2].parentId = project.versions[1].id
  /\ project.currentVersionId = lastCall.arg
  /\ currentMask = NullMask
  /\ selectedFlawId = Null
  /\ promptText # ""

(***************************************************************************)
(* Properties of the segmentation (checked under SpecSeg).                 *)
(***************************************************************************)
\* the mask a finished segmentAtPoint call handed over
DeliveredMask ==
  IF seg.site = "SegmentationCanvas" THEN maskGenerated.maskData
  ELSE currentMask.imageData

SeedInBounds ==
  seg.x >= 0 /\ seg.x < seg.width /\ seg.y >= 0 /\ seg.y < seg.height

\* summed absolute R, G, B difference from the seed pixel within tolerance * 3
Similar(img, k, seedKey, tolerance) ==
  Abs(img.data[k][1] - img.data[seedKey][1])
    + Abs(img.data[k][2] - img.data[seedKey][2])
    + Abs(img.data[k][3] - img.data[seedKey][3]) <= tolerance * 3

\* pixels k and l share an edge in an image of this width
Adjacent(k, l, width) ==
  LET kx == k % width  ky == k \div width
      lx == l % width  ly == l \div width
  IN Abs(kx - lx) + Abs(ky - ly) = 1

\* the pixels reachable from the set S through edge-sharing similar pixels
RECURSIVE Grow(_, _, _, _)
Grow(img, S, seedKey, tolerance) ==
  LET T == S \cup {k \in DOMAIN img.data :
                     /\ Similar(img, k, seedKey, tolerance)
                     /\ \E l \in S : Adjacent(k, l, img.width)}
  IN IF T = S THEN S ELSE Grow(img, T, seedKey, tolerance)

Region(img, seedKey, tolerance) == Grow(img, {seedKey}, seedKey, tolerance)

\* C10: for an in-bounds seed the finished mask is selected exactly at the
\* pixels reachable from the seed by a 4-connected path of pixels whose summed
\* absolute R, G, B difference from the seed pixel is at most tolerance * 3,
\* and unselected at every other pixel.
C10_MaskIsConnectedRegion ==
  (seg.pc = "done" /\ SeedInBounds) =>
    /\ DOMAIN DeliveredMask = DOMAIN imageData.data
    /\ MaskSelected(DeliveredMask)
         = Region(imageData, seg.y * seg.width + seg.x, seg.tolerance)

\* C10 witness: a finished run whose mask leaves out a pixel of similar colour
\* that no 4-connected path of similar pixels joins to the seed.
C10_Witness ==
  /\ seg.pc = "done"
  /\ SeedInBounds
  /\ \E k \in DOMAIN imageData.data :
       /\ Similar(imageData, k, seg.y * seg.width + seg.x, seg.tolerance)
       /\ k \notin MaskSelected(DeliveredMask)
  /\ \E k \in DOMAIN imageData.data :
       ~Similar(imageData, k, seg.y * seg.width + seg.x, seg.tolerance)

\* C11: for every seed inside the image the seed pixel itself is selected in
\* the finished mask, under either tolerance.
C11_SeedSelected ==
  (seg.pc = "done" /\ SeedInBounds) =>
    (seg.y * seg.width + seg.x) \in MaskSelected(DeliveredMask)

\* C11 witness: a finished run under the stricter tolerance whose seed is the
\* only selected pixel of an image of several pixels.
C11_Witness ==
  /\ seg.pc = "done"
  /\ SeedInBounds
  /\ seg.tolerance = ToleranceSegmentationCanvas
  /\ seg.width * seg.height > 1
  /\ MaskSelected(DeliveredMask) = {seg.y * seg.width + seg.x}

\* the loop run to completion taking the oldest pending element each time
\* (stack.shift() in place of stack.pop())
RECURSIVE RunQueue(_, _)
RunQueue(s, img) ==
  IF Len(s.stack) = 0 THEN s ELSE RunQueue(SegStep(s, img, 1), img)

\* C12: the finished mask of the stack-driven loop equals the mask the same
\* loop yields when it takes its pending pixels first in, first out, for every
\* image, seed and tolerance.
C12_OrderIndependent ==
  seg.pc = "done" =>
    DeliveredMask
      = RunQueue(SegStart(imageData, seg.site, seg.x, seg.y), imageData).maskData

\* C12 witness: a finished run that selected at least three pixels of an image
\* and rejected another, so the two disciplines visit in different orders.
C12_Witness ==
  /\ seg.pc = "done"
  /\ SeedInBounds
  /\ Cardinality(MaskSelected(DeliveredMask)) >= 3
  /\ MaskSelected(DeliveredMask) # DOMAIN imageData.data

\* C13: a click outside the image delivers no mask: onMaskGenerated is not
\* called and the current mask of the store stays null.
C13_OutOfBoundsNoMask ==
  (seg.pc = "done" /\ ~SeedInBounds) =>
    (maskGenerated = NoMaskGenerated /\ currentMask = NullMask)

(***************************************************************************)
(* Properties of the brush (checked under SpecBrush).                      *)
(***************************************************************************)
\* a stamp of radius r at the middle of pixel xy is drawn in this step
Stamped(xy, r) ==
  \/ handleBrushStart(xy[1], xy[2], r)
  \/ handleBrushMove(xy[1], xy[2], r)
  \/ handleMouseDown(xy[1], xy[2], r)
  \/ handleMouseMove(xy[1], xy[2], r)

\* the pixels of canvas c with at least n corners in the disc
DiscPixels(c, xy, r, n) ==
  {k \in DOMAIN c.data :
     CornersInside(k % c.width, k \div c.width, xy[1], xy[2], r) >= n}

C15_BeginWhileOpenRejected ==
  [][\A xy \in PointerAt(maskCanvas), r \in BrushSizes :
       (isDrawing /\ (handleBrushStart(xy[1], xy[2], r) \/ handleMouseDown(xy[1], xy[2], r)))
       => (maskCanvas' = maskCanvas /\ stampCount' = stampCount)]_vars

DeliveredBounds ==
  IF seg.site = "SegmentationCanvas" THEN maskGenerated.bounds
  ELSE currentMask.bounds

\* C17: the bounds delivered for the mask of an in-bounds click lie inside the
\* image: 0 <= x, 0 <= y, x + width <= image width, y + height <= image height.
C17_BoundsInsideImage ==
  (seg.pc = "done" /\ SeedInBounds) =>
    /\ DeliveredBounds.x >= 0
    /\ DeliveredBounds.y >= 0
    /\ DeliveredBounds.x + DeliveredBounds.width <= seg.width
    /\ DeliveredBounds.y + DeliveredBounds.height <= seg.height

\* C18: the bounds delivered for a non-empty mask are the bounding box of the
\* selected pixels moved out by the padding on every side, each edge clamped
\* to the image on its own (the far edge counted from the last selected pixel
\* or from just beyond it), and every selected pixel lies inside them.
C18_PaddedBoxClamped ==
  (seg.pc = "done" /\ SeedInBounds) =>
    LET sel == MaskSelected(DeliveredMask)
        minX == Min({k % seg.width : k \in sel})
        minY == Min({k \div seg.width : k \in sel})
        maxX == 0 - Min({0 - (k % seg.width) : k \in sel})
        maxY == 0 - Min({0 - (k \div seg.width) : k \in sel})
        b == DeliveredBounds
    IN /\ b.x = MaxOf(0, minX - Padding)
       /\ b.y = MaxOf(0, minY - Padding)
       /\ b.x + b.width \in {MinOf(seg.width, maxX + Padding),
                             MinOf(seg.width, maxX + 1 + Padding)}
       /\ b.y + b.height \in {MinOf(seg.height, maxY + Padding),
                              MinOf(seg.height, maxY + 1 + Padding)}
       /\ \A k \in sel : /\ b.x <= k % seg.width
                         /\ k % seg.width < b.x + b.width
                         /\ b.y <= k \div seg.width
                         /\ k \div seg.width < b.y + b.height

\* C19: in the mask delivered for an in-bounds click every accepted pixel is
\* opaque white and every other pixel opaque black.
C19_WhiteOrOpaqueBlack ==
  (seg.pc = "done" /\ SeedInBounds) =>
    \A k \in DOMAIN DeliveredMask :
      DeliveredMask[k] = IF k \in seg.visited THEN White ELSE Black

\* C20: reading the delivered mask back with `red > 128` gives exactly the set
\* of pixels the loop accepted, for every image and seed, the empty and the
\* full selection included.
C20_RoundTrip ==
  seg.pc = "done" => MaskSelected(DeliveredMask) = seg.visited

\* C20 witness: a finished run that accepted every pixel of an image of
\* several pixels.
C20_Witness ==
  /\ seg.pc = "done"
  /\ seg.width * seg.height > 1
  /\ seg.visited = DOMAIN imageData.data
  /\ MaskSelected(DeliveredMask) = seg.visited

(***************************************************************************)
(* Properties of generation (checked under SpecGen and SpecWizard).        *)
(***************************************************************************)
LastVersion(p) == p.versions[Len(p.versions)]

\* C21 as stated: issuing a generation request for the current mask
\* discards it.
C21_IssuedMaskDiscarded ==
  [][handleGenerate => currentMask' = NullMask]_vars

\* C21: there is one current mask; setting a mask replaces it; issuing a
\* generation request and a failed request leave it; a request that
\* succeeds, a switch of version and a clear (setting null) discard it.
C21_MaskLifecycle ==
  [][/\ \A mask \in MaskInputs : setCurrentMask(mask) => currentMask' = mask
     /\ handleGenerate => currentMask' = currentMask
     /\ \A i \in 1..Len(requests) :
          /\ (\E d \in FailureDetails : generateRejected(i, d))
               => currentMask' = currentMask
          /\ (\E url \in ResultUrls : generateResolved(i, url))
               => currentMask' = NullMask
     /\ (\E id \in VersionIds(project) : setCurrentVersion(id))
          => currentMask' = NullMask]_vars

\* a request was issued for the current mask, and the mask is still current
C21_Witness ==
  /\ Len(requests) = 1
  /\ requests[1].mask # NullMask
  /\ currentMask = requests[1].mask

\* C23: a failed generation shows a message (the detail of the response when
\* it has one), issues no new request, and leaves the project, the current
\* mask and the prompt as they were.
C23_FailureLeavesProject ==
  [][\A i \in 1..Len(requests), d \in FailureDetails :
       generateRejected(i, d) =>
         /\ toolbarError' # NoError
         /\ d # "" => toolbarError' = d
         /\ Len(requests') = Len(requests) - 1
         /\ ~isGenerating'
         /\ project' = project
         /\ currentMask' = currentMask
         /\ promptText' = promptText]_vars

\* a generation with a mask failed
C23_Witness ==
  /\ toolbarError = "quota"
  /\ requests = <<>>
  /\ currentMask # NullMask
  /\ promptText # ""
  /\ Len(project.versions) = 1

C28_OneInFlight == Len(requests) <= 1

(***************************************************************************)
(* Properties of flaws (checked under Spec).                               *)
(***************************************************************************)
\* C24: no operation removes a flaw from its Version, and no field of a
\* flaw other than `resolved` changes: across every step a Version that
\* stays in the project keeps its flaws, in order, up to `resolved`.
C24_FlawsKept ==
  [][(project # NullProject /\ project' # NullProject) =>
       \A i \in 1..Len(project.versions), j \in 1..Len(project'.versions) :
         project.versions[i].id = project'.versions[j].id =>
           LET before == project.versions[i].flaws
               after == project'.versions[j].flaws
           IN /\ Len(after) >= Len(before)
              /\ \A k \in 1..Len(before) :
                   [after[k] EXCEPT !.resolved = before[k].resolved] = before[k]]_vars

\* a Version holds a resolved flaw followed by an open one
C24_Witness ==
  /\ project # NullProject
  /\ \E i \in 1..Len(project.versions) :
       LET flaws == project.versions[i].flaws
       IN /\ Len(flaws) = 2
          /\ flaws[1].resolved
          /\ ~flaws[2].resolved

(***************************************************************************)
(* Work done by one segmentation pass (checked under SpecSeg).             *)
(***************************************************************************)
\* C25: during one pass no pixel has its colour compared with the target
\* more than once.
C25_ComparedOnce == seg.pc # "idle" => seg.recompared = {}

(***************************************************************************)
(* Properties of the editor page (checked under SpecEditor).               *)
(***************************************************************************)
\* C26: every render the page ever added is still in its versions list.
C26_RendersKept ==
  \A n \in 1..renderCount :
    \E i \in 1..Len(versions) : versions[i].imageUrl = n

\* C29: the ids of the versions of the page are pairwise distinct.
C29_IdsDistinct ==
  \A i, j \in 1..Len(versions) :
    versions[i].id = versions[j].id => i = j

(***************************************************************************)
(* Properties of the mask against the image (checked under SpecCanvas).    *)
(***************************************************************************)
\* C22: a current mask has the dimensions of the image of the current
\* version (as many pixels as that image; the images differ in that).
C22_MaskFitsCurrentImage ==
  (currentMask # NullMask /\ getCurrentVersion # NullVersion) =>
    LET img == Decoded(getCurrentVersion.imageUrl)
    IN DOMAIN currentMask.imageData = 0..(img.width * img.height - 1)

\* C30: a clear control (Clear Mask of the canvas, the X of the Toolbar's
\* mask indicator) leaves no pixel of the mask canvas selected.
C30_ClearEmptiesCanvas ==
  [][(clearMask \/ clearMaskIndicator) =>
       (maskCanvas' # NullCanvas => MaskSelected(maskCanvas'.data) = {})]_vars
====
